---- MODULE Spec2Model ----
(***************************************************************************)
(* Model of scripts/test.py, the snapshot harness of qatam: the serializer,*)
(* the snapshot store (get_snapshot_path), and the commands sync, run and  *)
(* clean over a directory tree.                                            *)
(*                                                                         *)
(* Texts are sequences of one-character strings.  A file name is the       *)
(* sequence of its dot-separated components (<<"a", "qtm">> is "a.qtm"),   *)
(* a path is a sequence of names.  The source's non-ASCII literals are     *)
(* transliterated: "qtm" stands for the test-case extension and "results"  *)
(* for the reserved results container name.                                *)
(*                                                                         *)
(* The script targets Windows (it spawns an .exe and catches WindowsError, *)
(* which is OSError there), so OSError is caught by the handlers of sync,  *)
(* run and clean, and any other exception propagates to the top level.     *)
(***************************************************************************)
EXTENDS Integers, Sequences, FiniteSets, TLC

VARIABLES
    fs,               \* the file system: path -> [kind, data]
    outcome,          \* what the artifact does on each test-case path (raw process output)
    artifactPresent,  \* whether target/release holds the executable
    buildOk,          \* whether `cargo build --release` succeeds
    unlistable,       \* directories whose listing raises an OS error
    ord,              \* the file system's enumeration order of names
    before,           \* the file system as the last step found it
    log,              \* what the last command did and printed, in order
    hist,             \* the last sync and the steps since: [cmd, dir, errs]
    synced,           \* the outcome function as it was at the last sync
    steps,            \* number of steps taken
    envSteps,         \* number of changes made by the environment
    argv,             \* the command line of the last invocation of main (SpecMain)
    sa, sb, ta, tb    \* serializer inputs and outputs (SpecSerialize)

vars == <<fs, outcome, artifactPresent, buildOk, unlistable, ord, before, log, hist,
          synced, steps, envSteps, argv, sa, sb, ta, tb>>

harnessVars == <<fs, outcome, artifactPresent, buildOk, unlistable, ord, before, log,
                 hist, synced, steps, envSteps, argv>>

serVars == <<sa, sb, ta, tb>>

-----------------------------------------------------------------------------
(* Bounds *)

MaxSteps == 4
MaxEnv == 1
MaxMs == 1
MaxPieces == 1
MaxRc == 1

-----------------------------------------------------------------------------
(* Texts *)

DigitChars == <<"0", "1", "2", "3", "4", "5", "6", "7", "8", "9">>

\* str(returncode) inside the f-string, for a non-negative integer
RECURSIVE Format(_)
Format(n) == IF n < 10 THEN <<DigitChars[n + 1]>>
             ELSE Format(n \div 10) \o <<DigitChars[(n % 10) + 1]>>

ReturncodeLabel == <<"r", "e", "t", "u", "r", "n", "c", "o", "d", "e", ":", " ">>
StdoutLabel == <<"s", "t", "d", "o", "u", "t", ":", "\n">>
StderrLabel == <<"s", "t", "d", "e", "r", "r", ":", "\n">>

\* f"returncode: {returncode}\nstdout:\n{stdout}stderr:\n{stderr}"
serialize(returncode, stdout, stderr) ==
    ReturncodeLabel \o Format(returncode) \o <<"\n">>
        \o StdoutLabel \o stdout \o StderrLabel \o stderr

\* index of the first c in s, 0 when there is none
FirstAt(s, c) ==
    IF \E i \in 1..Len(s) : s[i] = c
    THEN CHOOSE i \in 1..Len(s) : s[i] = c /\ \A j \in 1..(i - 1) : s[j] # c
    ELSE 0

\* Reading in text mode (newline=None): "\r\n" and a lone "\r" become "\n".
\* This is how subprocess.run(text=True) decodes the streams and how
\* open(path, "r").read() reads a snapshot.
RECURSIVE Decode(_)
Decode(bytes) ==
    LET i == FirstAt(bytes, "\r")
        j == IF i < Len(bytes) /\ bytes[i + 1] = "\n" THEN i + 2 ELSE i + 1
    IN IF i = 0 THEN bytes
       ELSE SubSeq(bytes, 1, i - 1) \o <<"\n">> \o Decode(SubSeq(bytes, j, Len(bytes)))

\* Writing in text mode on Windows (newline=None): "\n" becomes "\r\n".
RECURSIVE Encode(_)
Encode(text) ==
    LET i == FirstAt(text, "\n")
    IN IF i = 0 THEN text
       ELSE SubSeq(text, 1, i - 1) \o <<"\r", "\n">> \o Encode(SubSeq(text, i + 1, Len(text)))

-----------------------------------------------------------------------------
(* Names and paths *)

EXT == "qtm"                    \* the suffix ".قتام"
RES == <<"results">>            \* the name "النتائج"
A == <<"a", EXT>>
B == <<"b", EXT>>
SUB == <<"sub">>
DEFAULT_DIR == << <<"tests">> >>
SUB_DIR == Append(DEFAULT_DIR, SUB)

Names == {A, B, SUB, RES}
CmdDirs == {DEFAULT_DIR, SUB_DIR}
Cases == {Append(DEFAULT_DIR, A), Append(DEFAULT_DIR, B), Append(SUB_DIR, A)}

\* Path.suffix: the last dot-separated component, "" when there is none
suffix(name) == IF Len(name) > 1 THEN name[Len(name)] ELSE ""

\* Path.joinpath
joinpath(dir, name) == Append(dir, name)

\* f"{name}.txt"
SnapshotName(name) == Append(name, "txt")

IsPrefix(p, q) == Len(p) <= Len(q) /\ SubSeq(q, 1, Len(p)) = p
Parent(p) == SubSeq(p, 1, Len(p) - 1)
Last(s) == s[Len(s)]

-----------------------------------------------------------------------------
(* File system *)

DirNode == [kind |-> "dir", data |-> <<>>]
FileNode(bytes) == [kind |-> "file", data |-> bytes]

exists(f, p) == p \in DOMAIN f
is_dir(f, p) == p \in DOMAIN f /\ f[p].kind = "dir"
is_file(f, p) == p \in DOMAIN f /\ f[p].kind = "file"

Put(f, p, node) == [q \in DOMAIN f \cup {p} |-> IF q = p THEN node ELSE f[q]]
unlink(f, p) == [q \in DOMAIN f \ {p} |-> f[q]]
mkdir(f, p) == Put(f, p, DirNode)
rmtree(f, p) == [q \in {r \in DOMAIN f : ~IsPrefix(p, r)} |-> f[q]]

\* position of a name in the enumeration order; a snapshot "<name>.txt"
\* is enumerated where <name> would be
BaseName(name) == IF Last(name) = "txt" THEN SubSeq(name, 1, Len(name) - 1) ELSE name
Rank(o, name) == CHOOSE i \in 1..Len(o) : o[i] = BaseName(name)

RECURSIVE SortNames(_, _)
SortNames(o, S) ==
    IF S = {} THEN <<>>
    ELSE LET first == CHOOSE n \in S : \A m \in S : Rank(o, n) <= Rank(o, m)
         IN <<first>> \o SortNames(o, S \ {first})

\* whether os.listdir(dir) succeeds
CanList(f, deny, dir) == is_dir(f, dir) /\ dir \notin deny

\* os.listdir(dir): the names of the entries of dir, in enumeration order
listdir(f, o, dir) ==
    SortNames(o, {Last(q) : q \in {r \in DOMAIN f : Len(r) = Len(dir) + 1 /\ IsPrefix(dir, r)}})

\* a get_snapshot_path that always starts from an empty container
get_snapshot_path_fresh(f, dir, name) ==
    LET res == joinpath(dir, RES)
    IN [fs |-> mkdir(rmtree(f, res), res), path |-> joinpath(res, SnapshotName(name))]

\* a get_snapshot_path that makes the container only when nothing bears its name
get_snapshot_path_no_repair(f, dir, name) ==
    LET res == joinpath(dir, RES)
    IN [fs |-> IF ~exists(f, res) THEN mkdir(f, res) ELSE f,
        path |-> joinpath(res, SnapshotName(name))]

\* get_snapshot_path: makes sure the results container is a directory and
\* returns the snapshot path with the file system it leaves
get_snapshot_path(f, dir, name) ==
    LET res == joinpath(dir, RES)
        f1 == IF ~is_dir(f, res)
              THEN mkdir(IF is_file(f, res) THEN unlink(f, res) ELSE f, res)
              ELSE f
    IN [fs |-> f1, path |-> joinpath(res, SnapshotName(name))]

-----------------------------------------------------------------------------
(* Execution state of a command: st = [fs, log, art, exc]; env is what the  *)
(* command reads and does not change: [ord, deny, out, buildOk, ms].        *)

Ev(ev, path, sym, ms) == [ev |-> ev, path |-> path, sym |-> sym, ms |-> ms]
Log(st, e) == [st EXCEPT !.log = Append(@, e)]

\* build(): one run of the external build; it leaves the executable when it succeeds
build(st, env) ==
    [Log(st, Ev("build", <<>>, "", 0)) EXCEPT !.art = @ \/ env.buildOk]

\* an execute that captures the streams without newline translation
execute_raw(path, env) ==
    LET o == env.out[path]
    IN [res |-> serialize(o.returncode, o.stdout, o.stderr),
        bench |-> [path |-> path, ms |-> env.ms, succeeded |-> ""]]

\* an execute that puts the elapsed time into the serialized result
execute_timed(path, env) ==
    LET o == env.out[path]
    IN [res |-> serialize(o.returncode, Decode(o.stdout), Decode(o.stderr)) \o Format(env.ms),
        bench |-> [path |-> path, ms |-> env.ms, succeeded |-> ""]]

\* execute(path): the serialized outcome of one run of the artifact and its bench.
\* subprocess.run raises an OS error when the executable is absent (see Spawns).
Spawns(st) == st.art
execute(path, env) ==
    LET o == env.out[path]
    IN [res |-> serialize(o.returncode, Decode(o.stdout), Decode(o.stderr)),
        bench |-> [path |-> path, ms |-> env.ms, succeeded |-> ""]]

\* to_symbol
to_symbol(flag) == IF flag THEN "pass" ELSE "fail"

\* the loop printing one line per bench, at the end of sync and of run
RECURSIVE PrintBenches(_, _)
PrintBenches(st, benches) ==
    IF benches = <<>> THEN st
    ELSE PrintBenches(Log(st, Ev("report", Head(benches).path, Head(benches).succeeded,
                                 Head(benches).ms)),
                      Tail(benches))

RECURSIVE clean(_, _, _)
RECURSIVE cleanLoop(_, _, _, _, _)
RECURSIVE sync(_, _, _, _)
RECURSIVE syncLoop(_, _, _, _, _, _)
RECURSIVE run(_, _, _, _)
RECURSIVE runLoop(_, _, _, _, _, _)

\* a clean loop that hands the directory itself, not the container, to rmtree
cleanLoop_rmtree_dir(st, dir, names, i, env) ==
    IF i > Len(names) THEN st
    ELSE LET name == names[i]
             path == joinpath(dir, name)
             s1 == IF is_dir(st.fs, path) /\ name = RES
                   THEN [Log(st, Ev("rmtree", dir, "", 0)) EXCEPT !.fs = rmtree(@, dir)]
                   ELSE IF is_dir(st.fs, path)
                        THEN clean(st, path, env)
                        ELSE st
         IN cleanLoop(s1, dir, names, i + 1, env)

\* a clean loop that removes whatever bears the container's name, a regular file too
cleanLoop_by_name(st, dir, names, i, env) ==
    IF i > Len(names) THEN st
    ELSE LET name == names[i]
             path == joinpath(dir, name)
             s1 == IF name = RES
                   THEN [Log(st, Ev("rmtree", path, "", 0)) EXCEPT !.fs = rmtree(@, path)]
                   ELSE IF is_dir(st.fs, path)
                        THEN clean(st, path, env)
                        ELSE st
         IN cleanLoop(s1, dir, names, i + 1, env)

\* the body of clean's for loop, from the i-th name on
cleanLoop(st, dir, names, i, env) ==
    IF i > Len(names) THEN st
    ELSE LET name == names[i]
             path == joinpath(dir, name)
             s1 == IF is_dir(st.fs, path) /\ name = RES
                   THEN [Log(st, Ev("rmtree", path, "", 0)) EXCEPT !.fs = rmtree(@, path)]
                   ELSE IF is_dir(st.fs, path)
                        THEN clean(st, path, env)
                        ELSE st
         IN cleanLoop(s1, dir, names, i + 1, env)

clean(st, dir, env) ==
    LET s0 == Log(st, Ev("clean", dir, "", 0))
    IN IF ~CanList(s0.fs, env.deny, dir)
       THEN Log(s0, Ev("error", dir, "", 0))
       ELSE cleanLoop(s0, dir, listdir(s0.fs, env.ord, dir), 1, env)

\* the body of sync's for loop, from the i-th name on, then the printing of benches
syncLoop(st, dir, names, i, benches, env) ==
    IF i > Len(names) THEN PrintBenches(st, benches)
    ELSE LET name == names[i]
             path == joinpath(dir, name)
             s1 == IF is_dir(st.fs, path) THEN sync(st, path, FALSE, env) ELSE st
         IN IF suffix(name) # EXT
            THEN syncLoop(s1, dir, names, i + 1, benches, env)
            ELSE LET s2 == Log(s1, Ev("execute", path, "", 0))
                 IN IF ~Spawns(s2)
                    THEN PrintBenches(Log(s2, Ev("error", path, "", 0)), benches)
                    ELSE LET r == execute(path, env)
                             g == get_snapshot_path(s2.fs, dir, name)
                             s3 == [Log(s2, Ev("write", g.path, "", 0))
                                       EXCEPT !.fs = Put(g.fs, g.path, FileNode(Encode(r.res)))]
                         IN syncLoop(s3, dir, names, i + 1, Append(benches, r.bench), env)

\* a sync that does not clean first
sync_no_clean(st, dir, should_build, env) ==
    LET s0 == Log(IF should_build THEN build(st, env) ELSE st, Ev("sync", dir, "", 0))
    IN IF ~CanList(s0.fs, env.deny, dir)
       THEN PrintBenches(Log(s0, Ev("error", dir, "", 0)), <<>>)
       ELSE syncLoop(s0, dir, listdir(s0.fs, env.ord, dir), 1, <<>>, env)

\* a sync that builds in every call, the nested ones included
sync_rebuilding(st, dir, should_build, env) ==
    LET s0 == Log(build(st, env), Ev("sync", dir, "", 0))
        s1 == clean(s0, dir, env)
    IN IF ~CanList(s1.fs, env.deny, dir)
       THEN PrintBenches(Log(s1, Ev("error", dir, "", 0)), <<>>)
       ELSE syncLoop(s1, dir, listdir(s1.fs, env.ord, dir), 1, <<>>, env)

sync(st, dir, should_build, env) ==
    LET s0 == Log(IF should_build THEN build(st, env) ELSE st, Ev("sync", dir, "", 0))
        s1 == clean(s0, dir, env)
    IN IF ~CanList(s1.fs, env.deny, dir)
       THEN PrintBenches(Log(s1, Ev("error", dir, "", 0)), <<>>)
       ELSE syncLoop(s1, dir, listdir(s1.fs, env.ord, dir), 1, <<>>, env)

\* the body of run's for loop, from the i-th name on, then the printing of benches;
\* the RuntimeError of a missing snapshot is caught nowhere and leaves every frame
runLoop(st, dir, names, i, benches, env) ==
    IF i > Len(names) THEN PrintBenches(st, benches)
    ELSE LET name == names[i]
             path == joinpath(dir, name)
             s1 == IF is_dir(st.fs, path) /\ name # RES
                   THEN run(st, path, FALSE, env)
                   ELSE st
         IN IF s1.exc # "none" THEN s1
            ELSE IF suffix(name) # EXT
            THEN runLoop(s1, dir, names, i + 1, benches, env)
            ELSE LET g == get_snapshot_path(s1.fs, dir, name)
                     s2 == [s1 EXCEPT !.fs = g.fs]
                 IN IF ~exists(s2.fs, g.path)
                    THEN [Log(s2, Ev("raise", path, "", 0)) EXCEPT !.exc = "RuntimeError"]
                    ELSE LET s3 == Log(s2, Ev("execute", path, "", 0))
                         IN IF ~Spawns(s3)
                            THEN PrintBenches(Log(s3, Ev("error", path, "", 0)), benches)
                            ELSE LET r == execute(path, env)
                                     snapshot == Decode(s3.fs[g.path].data)
                                     bench == [r.bench EXCEPT
                                                 !.succeeded = to_symbol(r.res = snapshot)]
                                     s4 == Log(Log(s3, Ev("read", g.path, "", 0)),
                                               Ev("compare", path, bench.succeeded, 0))
                                 IN runLoop(s4, dir, names, i + 1, Append(benches, bench), env)

\* a run whose handler does not catch the error of listdir
run_listing_uncaught(st, dir, should_build, env) ==
    LET s0 == Log(IF should_build THEN build(st, env) ELSE st, Ev("run", dir, "", 0))
    IN IF ~CanList(s0.fs, env.deny, dir)
       THEN [s0 EXCEPT !.exc = "OSError"]
       ELSE runLoop(s0, dir, listdir(s0.fs, env.ord, dir), 1, <<>>, env)

run(st, dir, should_build, env) ==
    LET s0 == Log(IF should_build THEN build(st, env) ELSE st, Ev("run", dir, "", 0))
    IN IF ~CanList(s0.fs, env.deny, dir)
       THEN PrintBenches(Log(s0, Ev("error", dir, "", 0)), <<>>)
       ELSE runLoop(s0, dir, listdir(s0.fs, env.ord, dir), 1, <<>>, env)

-----------------------------------------------------------------------------
(* The harness as a state machine: one action per command of main's table,  *)
(* and the environment's changes between commands.  The enumeration order   *)
(* of listdir is arbitrary and fixed for a behaviour (ord); the elapsed     *)
(* time is drawn anew for every command.                                    *)

Ms == 0..MaxMs

Hi == <<"h", "i", "\r", "\n">>
Outcome(rc, out, err) == [returncode |-> rc, stdout |-> out, stderr |-> err]
\* what the artifact may do on a test case: exit status and the two raw streams
Outcomes == {Outcome(0, Hi, <<>>), Outcome(1, <<>>, StderrLabel), Outcome(1, StderrLabel, <<>>)}

Perms(S) == {p \in [1..Cardinality(S) -> S] : \A i, j \in 1..Cardinality(S) : p[i] = p[j] => i = j}

InitFs(withResFile) ==
    LET paths == {DEFAULT_DIR, SUB_DIR} \cup Cases
                    \cup (IF withResFile THEN {joinpath(DEFAULT_DIR, RES)} ELSE {})
    IN [p \in paths |-> IF p \in {DEFAULT_DIR, SUB_DIR} THEN DirNode ELSE FileNode(<<>>)]

Env(ms) == [ord |-> ord, deny |-> unlistable, out |-> outcome, buildOk |-> buildOk, ms |-> ms]
Start == [fs |-> fs, log |-> <<>>, art |-> artifactPresent, exc |-> "none"]

HasEv(l, ev) == \E i \in 1..Len(l) : l[i].ev = ev

\* hist: the last sync and the steps taken since, or the last step alone when no
\* sync is being followed; at most MaxHist entries
MaxHist == 3
Entry(cmd, dir, l) == [cmd |-> cmd, dir |-> dir, errs |-> HasEv(l, "error")]
Track(h, e) ==
    IF e.cmd = "sync" \/ h = <<>> \/ h[1].cmd # "sync" \/ Len(h) >= MaxHist
    THEN <<e>>
    ELSE Append(h, e)

\* main: an exception that leaves the command ends the process with a traceback
Finish(st) == IF st.exc # "none" THEN Log(st, Ev("traceback", <<>>, "", 0)) ELSE st

\* the keys of the subcommands table
subcommands == {"sync", "run", "clean"}

\* main: argv[1] is the program, argv[2] the subcommand, argv[3] the directory.
\* With a fourth element, next(argvIter) returns that string and the outer next
\* is applied to a str: a TypeError, which no handler of main catches.
main(st, av, env) ==
    IF Len(av) < 2 THEN Log(st, Ev("help", <<>>, "", 0))
    ELSE LET subcommand == av[2]
             dir == IF Len(av) >= 3 THEN av[3] ELSE DEFAULT_DIR
         IN IF subcommand \in subcommands
            THEN IF Len(av) >= 4 THEN [st EXCEPT !.exc = "TypeError"]
                 ELSE IF subcommand = "sync" THEN sync(st, dir, TRUE, env)
                 ELSE IF subcommand = "run" THEN run(st, dir, TRUE, env)
                 ELSE clean(st, dir, env)
            ELSE Log(Log(st, Ev("unknown", <<>>, "", 0)), Ev("help", <<>>, "", 0))

Done(cmd, dir, st) ==
    /\ fs' = st.fs
    /\ before' = fs
    /\ log' = st.log
    /\ artifactPresent' = st.art
    /\ hist' = Track(hist, Entry(cmd, dir, st.log))
    /\ steps' = steps + 1
    /\ UNCHANGED <<outcome, buildOk, unlistable, ord, envSteps, serVars>>

Sync(dir, ms) ==
    /\ steps < MaxSteps
    /\ synced' = outcome
    /\ UNCHANGED argv
    /\ Done("sync", dir, Finish(sync(Start, dir, TRUE, Env(ms))))

Run(dir, ms) ==
    /\ steps < MaxSteps
    /\ UNCHANGED <<synced, argv>>
    /\ Done("run", dir, Finish(run(Start, dir, TRUE, Env(ms))))

Clean(dir) ==
    /\ steps < MaxSteps
    /\ UNCHANGED <<synced, argv>>
    /\ Done("clean", dir, Finish(clean(Start, dir, Env(0))))

\* one invocation of the script with the command line av
Main(av, ms) ==
    /\ steps < MaxSteps
    /\ argv' = av
    /\ synced' = IF Len(av) \in 2..3 /\ av[2] = "sync" THEN outcome ELSE synced
    /\ Done("main", <<>>, Finish(main(Start, av, Env(ms))))

\* the artifact is changed so that it behaves differently on one test case
EditArtifact(c, o) ==
    /\ steps < MaxSteps
    /\ envSteps < MaxEnv
    /\ envSteps' = envSteps + 1
    /\ is_file(fs, c)
    /\ o # outcome[c]
    /\ outcome' = [outcome EXCEPT ![c] = o]
    /\ before' = fs
    /\ hist' = Track(hist, Entry("edit", c, <<>>))
    /\ steps' = steps + 1
    /\ UNCHANGED <<fs, artifactPresent, buildOk, unlistable, ord, log, synced, argv, serVars>>

\* a test case is deleted from the tree
RemoveCase(c) ==
    /\ steps < MaxSteps
    /\ envSteps < MaxEnv
    /\ envSteps' = envSteps + 1
    /\ is_file(fs, c)
    /\ fs' = unlink(fs, c)
    /\ before' = fs
    /\ hist' = Track(hist, Entry("remove", c, <<>>))
    /\ steps' = steps + 1
    /\ UNCHANGED <<outcome, artifactPresent, buildOk, unlistable, ord, log, synced, argv, serVars>>

InitOutcome ==
    [c \in Cases |-> IF c = joinpath(DEFAULT_DIR, A) THEN Outcome(0, Hi, <<>>)
                     ELSE Outcome(1, <<>>, StderrLabel)]

\* the tree, the order and the history at the start; the executable is not built yet
InitTree(resFile) ==
    /\ \E withResFile \in resFile : fs = InitFs(withResFile)
    /\ before = fs
    /\ outcome = InitOutcome
    /\ artifactPresent = FALSE
    /\ ord \in Perms(Names)
    /\ log = <<>>
    /\ hist = <<>>
    /\ synced = InitOutcome
    /\ steps = 0
    /\ envSteps = 0
    /\ argv = <<>>
    /\ sa = Outcome(0, <<>>, <<>>) /\ sb = Outcome(0, <<>>, <<>>)
    /\ ta = <<>> /\ tb = <<>>

\* a sound environment: the build succeeds and every directory can be listed
Init ==
    /\ InitTree(BOOLEAN)
    /\ buildOk = TRUE
    /\ unlistable = {}

\* a failing environment: the build fails and leaves no executable, or the
\* subdirectory cannot be listed
InitFaults ==
    /\ InitTree({FALSE})
    /\ \/ buildOk = FALSE /\ unlistable = {}
       \/ buildOk = TRUE /\ unlistable = {SUB_DIR}

Next ==
    \/ \E dir \in CmdDirs, ms \in Ms : Sync(dir, ms)
    \/ \E dir \in CmdDirs, ms \in Ms : Run(dir, ms)
    \/ \E dir \in CmdDirs : Clean(dir)
    \/ \E c \in Cases, o \in Outcomes : EditArtifact(c, o)
    \/ \E c \in Cases : RemoveCase(c)

Spec == Init /\ [][Next]_vars

SpecFaults == InitFaults /\ [][Next]_vars

-----------------------------------------------------------------------------
(* The script as it is started from a command line *)

PROG == "test.py"
Words == {"sync", "run", "clean", "bogus"}
Argvs ==
    {<<PROG>>} \cup {<<PROG, w>> : w \in Words}
        \cup {<<PROG, w, d>> : w \in Words, d \in CmdDirs}
        \cup {<<PROG, w, d, "extra">> : w \in Words, d \in CmdDirs}

InitMain ==
    /\ InitTree({FALSE})
    /\ buildOk = TRUE
    /\ unlistable = {}

NextMain == \E av \in Argvs, ms \in Ms : Main(av, ms)

SpecMain == InitMain /\ [][NextMain]_vars

-----------------------------------------------------------------------------
(* The serializer alone: two outcomes as subprocess.run returns them are    *)
(* drawn, and serialize is applied to both.                                 *)

HiText == <<"h", "i", "\n">>
Pieces == {HiText, StdoutLabel, StderrLabel}

\* the texts made of at most n pieces
RECURSIVE TextsUpTo(_)
TextsUpTo(n) ==
    IF n = 0 THEN {<<>>}
    ELSE TextsUpTo(n - 1) \cup {t \o p : t \in TextsUpTo(n - 1), p \in Pieces}

SerOutcomes ==
    {Outcome(rc, out, err) : rc \in 0..MaxRc, out \in TextsUpTo(MaxPieces), err \in TextsUpTo(MaxPieces)}

InitSerialize ==
    /\ fs = InitFs(FALSE) /\ before = fs
    /\ outcome = InitOutcome /\ synced = InitOutcome
    /\ artifactPresent = FALSE /\ buildOk = TRUE /\ unlistable = {}
    /\ ord = <<A, B, SUB, RES>>
    /\ log = <<>> /\ hist = <<>> /\ steps = 0 /\ envSteps = 0 /\ argv = <<>>
    /\ sa \in SerOutcomes /\ sb \in SerOutcomes
    /\ ta = <<>> /\ tb = <<>>

Serialize ==
    /\ ta = <<>>
    /\ ta' = serialize(sa.returncode, sa.stdout, sa.stderr)
    /\ tb' = serialize(sb.returncode, sb.stdout, sb.stderr)
    /\ UNCHANGED <<sa, sb, harnessVars>>

NextSerialize == Serialize

SpecSerialize == InitSerialize /\ [][NextSerialize]_vars

-----------------------------------------------------------------------------
(* The snapshot store alone: get_snapshot_path is called on trees in which   *)
(* the container of each directory is absent, a regular file, an empty       *)
(* directory, or a directory that holds a snapshot.                          *)

ResKinds == {"absent", "file", "dir", "snap"}

\* f with the container of dir in the state kind; data is what the files hold
WithContainer(f, dir, kind, data) ==
    LET res == joinpath(dir, RES)
    IN IF kind = "absent" THEN f
       ELSE IF kind = "file" THEN Put(f, res, FileNode(data))
       ELSE IF kind = "dir" THEN mkdir(f, res)
       ELSE Put(mkdir(f, res), joinpath(res, SnapshotName(A)), FileNode(data))

InitSnapshotPath ==
    /\ \E k1 \in ResKinds, k2 \in ResKinds, data \in {<<>>, Hi} :
          fs = WithContainer(WithContainer(InitFs(FALSE), DEFAULT_DIR, k1, data),
                             SUB_DIR, k2, data)
    /\ before = fs
    /\ outcome = InitOutcome /\ synced = InitOutcome
    /\ artifactPresent = FALSE /\ buildOk = TRUE /\ unlistable = {}
    /\ ord = <<A, B, SUB, RES>>
    /\ log = <<>> /\ hist = <<>> /\ steps = 0 /\ envSteps = 0 /\ argv = <<>>
    /\ sa = Outcome(0, <<>>, <<>>) /\ sb = Outcome(0, <<>>, <<>>)
    /\ ta = <<>> /\ tb = <<>>

\* one call get_snapshot_path(dir, name); the log holds the path it returned
GetSnapshotPath(dir, name) ==
    /\ steps < MaxSteps
    /\ LET g == get_snapshot_path(fs, dir, name)
       IN /\ fs' = g.fs
          /\ log' = <<Ev("path", g.path, "", 0)>>
    /\ before' = fs
    /\ hist' = <<[cmd |-> "get_snapshot_path", dir |-> dir, name |-> name, errs |-> FALSE]>>
    /\ steps' = steps + 1
    /\ UNCHANGED <<outcome, artifactPresent, buildOk, unlistable, ord, synced, envSteps,
                   argv, serVars>>

NextSnapshotPath == \E dir \in CmdDirs, name \in {A, B} : GetSnapshotPath(dir, name)

SpecSnapshotPath == InitSnapshotPath /\ [][NextSnapshotPath]_vars

-----------------------------------------------------------------------------
(* A tree of depth 3 with sibling directories at each level.  The sibling   *)
(* of x is named y, or d.qtm: a directory whose name ends with the          *)
(* test-case extension.                                                     *)
(*     tests/   a.qtm  x/  s/                                               *)
(*     tests/x/ a.qtm  x/  s/                                               *)
(*     tests/x/x/ a.qtm          tests/x/s/ (empty)     tests/s/ a.qtm      *)

X == <<"x">>
Y == <<"y">>
D == <<"d", EXT>>
X_DIR == Append(DEFAULT_DIR, X)
XX_DIR == Append(X_DIR, X)

DeepDirs(s) == {DEFAULT_DIR, X_DIR, XX_DIR, Append(DEFAULT_DIR, s), Append(X_DIR, s)}
DeepFiles(s) == {Append(DEFAULT_DIR, A), Append(X_DIR, A), Append(XX_DIR, A),
                 Append(Append(DEFAULT_DIR, s), A)}

DeepFs(s) ==
    [p \in DeepDirs(s) \cup DeepFiles(s) |-> IF p \in DeepDirs(s) THEN DirNode ELSE FileNode(<<>>)]

\* what the artifact does when it is given each path the harness may hand it
DeepOutcome(s) ==
    [p \in DeepDirs(s) \cup DeepFiles(s) |->
        IF p \in DeepFiles(s) THEN Outcome(0, Hi, <<>>) ELSE Outcome(1, <<>>, StderrLabel)]

DeepCmdDirs == {DEFAULT_DIR, X_DIR}

InitDeep ==
    /\ \E s \in {Y, D} :
          /\ fs = DeepFs(s)
          /\ outcome = DeepOutcome(s)
          /\ ord \in Perms({A, X, s, RES})
    /\ before = fs
    /\ synced = outcome
    /\ artifactPresent = FALSE /\ buildOk = TRUE /\ unlistable = {}
    /\ log = <<>> /\ hist = <<>> /\ steps = 0 /\ envSteps = 0 /\ argv = <<>>
    /\ sa = Outcome(0, <<>>, <<>>) /\ sb = Outcome(0, <<>>, <<>>)
    /\ ta = <<>> /\ tb = <<>>

NextDeep ==
    \/ \E dir \in DeepCmdDirs, ms \in Ms : Sync(dir, ms)
    \/ \E dir \in DeepCmdDirs, ms \in Ms : Run(dir, ms)
    \/ \E dir \in DeepCmdDirs : Clean(dir)

SpecDeep == InitDeep /\ [][NextDeep]_vars

-----------------------------------------------------------------------------
(* Vocabulary of the claims *)

\* the test cases of the tree under dir: regular files with the test-case
\* extension, outside any results container
TestCases(f, dir) ==
    {p \in DOMAIN f : /\ is_file(f, p)
                      /\ suffix(Last(p)) = EXT
                      /\ IsPrefix(dir, p)
                      /\ \A i \in 1..Len(p) : p[i] # RES}

\* where the snapshot of test case p is kept
SnapshotPath(p) == joinpath(joinpath(Parent(p), RES), SnapshotName(Last(p)))

\* the snapshot files: the files held by a results container
Snapshots(f) == {p \in DOMAIN f : is_file(f, p) /\ Len(p) > 1 /\ Last(Parent(p)) = RES}
SnapshotState(f) == {<<p, f[p].data>> : p \in Snapshots(f)}

\* the outcome as subprocess.run hands it to the script
Captured(o) == Outcome(o.returncode, Decode(o.stdout), Decode(o.stderr))
Serialized(o) == serialize(Captured(o).returncode, Captured(o).stdout, Captured(o).stderr)

Happened(l, ev, p) == \E i \in 1..Len(l) : l[i].ev = ev /\ l[i].path = p
Reported(l, p, sym) == \E i \in 1..Len(l) : l[i].ev = "report" /\ l[i].path = p /\ l[i].sym = sym
Mismatched(l, p) == \E i \in 1..Len(l) : l[i].ev = "compare" /\ l[i].path = p /\ l[i].sym = "fail"

After(cmd) == hist # <<>> /\ Last(hist).cmd = cmd
LastDir == Last(hist).dir

\* the last two steps were sync(dir), which met no OS error, and run(dir)
SyncThenRun ==
    /\ Len(hist) = 2
    /\ hist[1].cmd = "sync" /\ ~hist[1].errs
    /\ hist[2].cmd = "run" /\ hist[2].dir = hist[1].dir

\* the last three steps were sync(dir), clean(dir) and run(dir)
SyncCleanRun ==
    /\ Len(hist) = 3
    /\ hist[1].cmd = "sync" /\ ~hist[1].errs
    /\ hist[2].cmd = "clean" /\ hist[2].dir = hist[1].dir
    /\ hist[3].cmd = "run" /\ hist[3].dir = hist[1].dir

\* sync(dir), then only changes of the artifact, then run(dir)
SyncEditsRun ==
    /\ Len(hist) >= 2
    /\ hist[1].cmd = "sync" /\ ~hist[1].errs
    /\ Last(hist).cmd = "run" /\ Last(hist).dir = hist[1].dir
    /\ \A i \in 2..(Len(hist) - 1) : hist[i].cmd = "edit"

\* the results containers under dir, and whether p lies inside one
Containers(f, dir) ==
    {p \in DOMAIN f : is_dir(f, p) /\ Last(p) = RES /\ IsPrefix(dir, p) /\ p # dir}
InContainer(f, p) ==
    \E k \in 1..(Len(p) - 1) : p[k] = RES /\ is_dir(f, SubSeq(p, 1, k))

\* the last three steps were sync(dir), clean(dir) and clean(dir)
SyncCleanClean ==
    /\ Len(hist) = 3
    /\ hist[1].cmd = "sync"
    /\ hist[2].cmd = "clean" /\ hist[2].dir = hist[1].dir
    /\ hist[3].cmd = "clean" /\ hist[3].dir = hist[1].dir

\* the directories nested under dir that are no results container and lie in none
NestedDirs(f, dir) ==
    {p \in DOMAIN f : /\ is_dir(f, p)
                      /\ IsPrefix(dir, p) /\ p # dir
                      /\ \A k \in 1..Len(p) : p[k] # RES}

\* how many times the log shows the command cmd entering directory d
Visits(l, cmd, d) == Cardinality({i \in 1..Len(l) : l[i].ev = cmd /\ l[i].path = d})

\* a log without the elapsed times
StripMs(l) == [i \in 1..Len(l) |-> [ev |-> l[i].ev, path |-> l[i].path, sym |-> l[i].sym]]

\* the last command (a sync or a run) done again from the state it started in,
\* with ms as the elapsed time measured
Redo(ms) ==
    LET st0 == [fs |-> before, log |-> <<>>, art |-> artifactPresent, exc |-> "none"]
    IN Finish(IF Last(hist).cmd = "sync"
              THEN sync(st0, LastDir, TRUE, Env(ms))
              ELSE run(st0, LastDir, TRUE, Env(ms)))

\* the test cases on which the artifact's outcome is not what it was at the last sync
Changed == {p \in Cases : Captured(outcome[p]) # Captured(synced[p])}

-----------------------------------------------------------------------------
(* Claims *)

\* C1: after sync(dir) on a tree with at least one test case, an immediately
\* following run(dir) reports every test case of the tree as passed, and raises no
\* missing-snapshot error.
C1_SyncThenRunPasses ==
    (SyncThenRun /\ TestCases(fs, LastDir) # {}) =>
        /\ ~HasEv(log, "raise")
        /\ \A p \in TestCases(fs, LastDir) :
              Reported(log, p, "pass") /\ ~Reported(log, p, "fail")

C1_Witness ==
    /\ SyncThenRun
    /\ LastDir = DEFAULT_DIR
    /\ Cardinality(TestCases(fs, DEFAULT_DIR)) = 3
    /\ \A p \in TestCases(fs, DEFAULT_DIR) : Reported(log, p, "pass")

\* C2 (as claimed): after sync(dir) and clean(dir), run(dir) reports the
\* missing-snapshot error for every test case of the tree and passes none.
C2_EveryCaseReportedMissing ==
    SyncCleanRun =>
        \A p \in TestCases(fs, LastDir) :
            Happened(log, "raise", p) /\ ~Reported(log, p, "pass")

\* C3 (as claimed): in run, a test case with a missing snapshot does not stop the
\* others: every other test case that has a snapshot is executed, compared and
\* reported.
C3_MissingSnapshotStopsNoOther ==
    After("run") =>
        \A p, q \in TestCases(fs, LastDir) :
            (p # q /\ Happened(log, "raise", p) /\ is_file(before, SnapshotPath(q))) =>
                /\ Happened(log, "execute", q)
                /\ Happened(log, "compare", q)
                /\ Happened(log, "report", q)

\* C4 (as claimed): serialize is injective: equal texts come from equal return
\* codes, stdouts and stderrs.
C4_SerializeInjective ==
    (ta # <<>> /\ ta = tb) => sa = sb

\* C5 (as claimed): no command executes the results container as a test case or
\* enters it as an ordinary subdirectory.
C5_ContainerNeverEntered ==
    \A i \in 1..Len(log) :
        log[i].ev \in {"sync", "run", "clean", "execute"} => Last(log[i].path) # RES

\* C6: when a sync(dir) that met no OS error finishes, every test case under dir
\* has a snapshot file, written during this sync, that reads as the serialized
\* outcome of the case, and every snapshot file under dir was written during this
\* sync.
C6_SyncRepopulates ==
    (After("sync") /\ ~Last(hist).errs) =>
        /\ \A p \in TestCases(fs, LastDir) :
              /\ Happened(log, "execute", p)
              /\ Happened(log, "write", SnapshotPath(p))
              /\ is_file(fs, SnapshotPath(p))
              /\ Decode(fs[SnapshotPath(p)].data) = Serialized(outcome[p])
        /\ \A q \in Snapshots(fs) : IsPrefix(LastDir, q) => Happened(log, "write", q)

\* a sync that found the snapshot of a test case that no longer exists
C6_Witness ==
    /\ After("sync") /\ ~Last(hist).errs
    /\ TestCases(fs, LastDir) # {}
    /\ \E q \in Snapshots(before) : IsPrefix(LastDir, q) /\ q \notin Snapshots(fs)

\* C7 (as claimed): after sync, a change of the artifact's outcome on the cases S
\* and a run: exactly the cases of S are reported failed, every other case passed.
C7_ExactlyChangedCasesFail ==
    SyncEditsRun =>
        \A p \in TestCases(fs, LastDir) :
            /\ p \in Changed => Reported(log, p, "fail")
            /\ p \notin Changed => Reported(log, p, "pass")

\* C8 (as claimed): for every mismatch, run prints the case name and a line-level
\* diff before the summary line of the case.
C8_DiffBeforeSummary ==
    After("run") =>
        \A p \in TestCases(fs, LastDir) :
            Mismatched(log, p) =>
                \E j \in 1..Len(log) :
                    /\ log[j].ev = "diff" /\ log[j].path = p
                    /\ \A k \in 1..Len(log) :
                          (log[k].ev = "report" /\ log[k].path = p) => j < k

\* C9 (as claimed): every mismatch run detects is printed as a failed report line
\* before run ends.
C9_EveryMismatchReported ==
    After("run") =>
        \A p \in TestCases(fs, LastDir) : Mismatched(log, p) => Reported(log, p, "fail")

\* C10: run leaves the snapshot files and their contents as they were; only sync
\* writes snapshot contents, and only sync and clean remove them.
C10_RunKeepsSnapshots ==
    hist # <<>> =>
        /\ Last(hist).cmd \notin {"sync", "clean"} => SnapshotState(fs) = SnapshotState(before)
        /\ Last(hist).cmd = "clean" => SnapshotState(fs) \subseteq SnapshotState(before)

\* a run that changed the tree (it made a container) beside existing snapshots
C10_Witness ==
    /\ After("run")
    /\ fs # before
    /\ Snapshots(before) # {}
    /\ HasEv(log, "read")


\* C11: a top-level sync or run calls the external build exactly once, before any
\* test case is executed and before any snapshot is removed, written or read, and
\* not again in the calls for nested directories; clean never calls the build.
C11_BuildOnceFirst ==
    hist # <<>> =>
        /\ Last(hist).cmd \in {"sync", "run"} =>
              /\ Cardinality({i \in 1..Len(log) : log[i].ev = "build"}) = 1
              /\ \A i \in 1..Len(log) :
                    log[i].ev \in {"execute", "rmtree", "write", "read"} =>
                        \E j \in 1..(i - 1) : log[j].ev = "build"
        /\ Last(hist).cmd = "clean" => ~HasEv(log, "build")

\* a sync of the whole tree that went down to depth 3 and removed old snapshots
C11_Witness ==
    /\ After("sync") /\ LastDir = DEFAULT_DIR
    /\ Happened(log, "sync", XX_DIR)
    /\ Happened(log, "execute", Append(XX_DIR, A))
    /\ HasEv(log, "rmtree")


\* C12 (as claimed): when the artifact cannot be spawned for a test case (the build
\* failed and left no executable), sync and run still go on: every other test
\* case of the same directory is attempted and every subdirectory of it is entered.
C12_ExecutionFailureStopsNoOther ==
    (hist # <<>> /\ Last(hist).cmd \in {"sync", "run"}) =>
        \A p \in TestCases(before, LastDir) :
            Happened(log, "error", p) =>
                /\ \A q \in TestCases(before, Parent(p)) :
                      Parent(q) = Parent(p) => Happened(log, "execute", q)
                /\ \A d \in DOMAIN before :
                      (is_dir(before, d) /\ Parent(d) = Parent(p) /\ Last(d) # RES) =>
                          Happened(log, Last(hist).cmd, d)


\* C13 (as claimed): sync and run handle a directory entry in exactly one way: a
\* subdirectory is only entered, never executed as a test case nor given a
\* snapshot, even when its name ends with the test-case extension.
C13_DirectoriesNotExecuted ==
    (hist # <<>> /\ Last(hist).cmd \in {"sync", "run"}) =>
        \A i \in 1..Len(log) :
            /\ log[i].ev \in {"execute", "raise", "report"} => ~is_dir(before, log[i].path)
            /\ log[i].ev = "write" =>
                  ~is_dir(before, joinpath(Parent(Parent(log[i].path)), BaseName(Last(log[i].path))))


\* C14: clean(dir) removes only snapshot state: every file under dir that is not
\* held by a results container, test cases included, exists with the same content
\* after clean as before it, and so does every directory outside the containers.
C14_CleanKeepsOtherFiles ==
    After("clean") =>
        \A p \in DOMAIN before :
            (IsPrefix(LastDir, p) /\ ~InContainer(before, p)
                /\ ~(is_dir(before, p) /\ Last(p) = RES /\ p # LastDir)) =>
                (p \in DOMAIN fs /\ fs[p] = before[p])

\* a clean that removed snapshots beside test cases and beside a regular file that
\* bears the container's name
C14_Witness ==
    /\ After("clean") /\ LastDir = DEFAULT_DIR
    /\ Snapshots(before) # {} /\ Snapshots(fs) = {}
    /\ TestCases(fs, DEFAULT_DIR) # {}
    /\ is_file(fs, joinpath(DEFAULT_DIR, RES))

\* C15: clean(dir) on a tree that holds no results container changes nothing and
\* raises nothing, and clean is idempotent: a clean(dir) of the tree that clean(dir)
\* left gives that same tree.
C15_CleanIdempotent ==
    After("clean") =>
        /\ ~HasEv(log, "traceback")
        /\ Containers(before, LastDir) = {} => (fs = before /\ ~HasEv(log, "error"))
        /\ clean([fs |-> fs, log |-> <<>>, art |-> artifactPresent, exc |-> "none"],
                 LastDir, Env(0)).fs = fs
        /\ SyncCleanClean => fs = before

\* the second of two clean(dir) in a row after a sync: it finds no container left
C15_Witness ==
    /\ SyncCleanClean
    /\ LastDir = DEFAULT_DIR
    /\ Cardinality(TestCases(fs, DEFAULT_DIR)) = 3
    /\ Containers(before, DEFAULT_DIR) = {}
    /\ HasEv(log, "clean") /\ ~HasEv(log, "rmtree")


\* C16: when listing a directory d fails during sync, run or clean, the error is
\* caught and printed and the command does not abort: what lies outside d is still
\* processed (sync writes the snapshot of every test case outside d, clean removes
\* every container outside d, and a run that meets no missing snapshot reports
\* every test case outside d).
C16_ListingErrorSkipsSubtreeOnly ==
    (hist # <<>> /\ Last(hist).cmd \in {"sync", "run", "clean"}) =>
        \A d \in unlistable :
            (is_dir(before, d) /\ IsPrefix(LastDir, d)) =>
                /\ HasEv(log, "traceback") => HasEv(log, "raise")
                /\ ~HasEv(log, "raise") => Happened(log, "error", d)
                /\ Last(hist).cmd = "sync" =>
                      \A p \in TestCases(before, LastDir) :
                          ~IsPrefix(d, p) =>
                              /\ Happened(log, "write", SnapshotPath(p))
                              /\ is_file(fs, SnapshotPath(p))
                /\ (Last(hist).cmd = "run" /\ ~HasEv(log, "raise")) =>
                      \A p \in TestCases(before, LastDir) :
                          ~IsPrefix(d, p) => Happened(log, "report", p)
                /\ Last(hist).cmd = "clean" =>
                      \A c \in Containers(before, LastDir) :
                          ~IsPrefix(d, c) => c \notin DOMAIN fs

\* a run of the whole tree that met the unlistable subdirectory first and still
\* reported the test cases enumerated after it
C16_Witness ==
    /\ After("run") /\ LastDir = DEFAULT_DIR
    /\ unlistable = {SUB_DIR}
    /\ Rank(ord, SUB) < Rank(ord, A) /\ Rank(ord, SUB) < Rank(ord, B)
    /\ Happened(log, "error", SUB_DIR)
    /\ Reported(log, joinpath(DEFAULT_DIR, A), "pass")
    /\ Reported(log, joinpath(DEFAULT_DIR, B), "pass")


\* C17 (as claimed): when main is given a known subcommand followed by more than
\* one positional argument, or an unknown subcommand, it prints the usage help and
\* has no side effect: no build, no execution, no change of the file system.
C17_UsageErrorNoSideEffect ==
    (Len(argv) >= 2 /\ (argv[2] \notin subcommands \/ Len(argv) > 3)) =>
        /\ HasEv(log, "help")
        /\ ~HasEv(log, "build") /\ ~HasEv(log, "execute")
        /\ fs = before


\* C18: the elapsed time measured has no influence on the comparison: a run done
\* with any other elapsed time on the same tree, snapshots and outcomes gives the
\* same verdict for every case, and a sync done with any other elapsed time writes
\* the same snapshot texts.
C18_TimingNoInfluence ==
    (hist # <<>> /\ Last(hist).cmd \in {"sync", "run"}) =>
        \A ms \in Ms :
            /\ Redo(ms).fs = fs
            /\ StripMs(Redo(ms).log) = StripMs(log)

\* a run that measured a non-zero time, passed one case and failed another
C18_Witness ==
    /\ After("run")
    /\ \E i, j \in 1..Len(log) :
          /\ log[i].ev = "report" /\ log[i].sym = "fail" /\ log[i].ms > 0
          /\ log[j].ev = "report" /\ log[j].sym = "pass"


\* C19 (as claimed): on a tree of depth 3 with sibling directories at each level,
\* each of sync, run and clean ends, and its walk (the command's own recursive
\* calls) enters every nested directory that is not a results container exactly
\* once.
C19_WalkVisitsEachDirOnce ==
    (hist # <<>> /\ Last(hist).cmd \in {"sync", "run", "clean"}) =>
        \A d \in NestedDirs(before, LastDir) : Visits(log, Last(hist).cmd, d) = 1


\* C20: after get_snapshot_path(dir, name) the results container of dir is a
\* directory: made (empty) when absent, put in the place of a regular file of that
\* name, and left with its files when it was a directory already; nothing else
\* changes, and the path returned is <dir>/<container>/<name>.txt, whatever the
\* files hold.
C20_ContainerEnsured ==
    After("get_snapshot_path") =>
        LET res == joinpath(LastDir, RES)
        IN /\ is_dir(fs, res)
           /\ is_dir(before, res) => fs = before
           /\ ~is_dir(before, res) =>
                 /\ DOMAIN fs = DOMAIN before \cup {res}
                 /\ \A q \in DOMAIN before \ {res} : fs[q] = before[q]
           /\ log = <<Ev("path", joinpath(res, SnapshotName(Last(hist).name)), "", 0)>>

\* a call that found a regular file with the container's name and replaced it
C20_Witness ==
    /\ After("get_snapshot_path")
    /\ is_file(before, joinpath(LastDir, RES))
    /\ is_dir(fs, joinpath(LastDir, RES))
    /\ Snapshots(fs) # {}

====
